---- MODULE Spec2Model ----
(***************************************************************************)
(* hapless: the job registry (one directory per hap, named by its id) and  *)
(* the supervisor of src/hapless/main.py.                                  *)
(*                                                                         *)
(* Every launch (Hapless.run, directly or from Hapless.restart) is one job *)
(* slot j.  The process a job spawns has pid j.  A job slot walks through  *)
(*   idle -> gotid -> forked -> spawned -> bound -> done                   *)
(* and a restart enters through  idle -> rwait -> rclean -> rrun -> gotid. *)
(* Each step is one filesystem or OS call of the code, so that independent *)
(* invocations and detached flows interleave as they do on a shared,       *)
(* unlocked directory.                                                     *)
(***************************************************************************)
EXTENDS Integers, Sequences, FiniteSets, TLC

\* ------------------------------------------------------------------ bounds
MaxJobs == 2
MaxId == 3
\* How often wait_created looks for the rc file before it gives up.
MaxPolls == 2

Jobs == 1..MaxJobs
\* pid 0 is the process of a hap that an earlier session left behind.
Pids == 0..MaxJobs
Ids == 1..MaxId

\* ------------------------------------------------------------ input values
\* "ok" exits 0 on its own, "bad" exits 1 on its own, "nap" runs until killed.
Cmds == {"ok", "bad", "nap"}
\* <<n>> is a name file holding n; <<>> (see OldHap) is "no name file".
Names == {<<"nap">>}
\* The names given to haps where only the registry is exercised: none, a
\* word, and a name that reads like the id of another hap.
RegNames == {<<>>, <<"nap">>, <<"2">>}
Sigs == {"KILL", "STOP", "CONT"}

\* The return code Popen.wait() reports for a process ended by a signal.
KilledCode == -15

ExitOf(cmd) == IF cmd = "ok" THEN 0 ELSE 1

VARIABLES
    dirs,       \* the registry directory: id -> hap directory, or NoDir
    pc,         \* job -> where its launching invocation / detached flow is
    hid,        \* job -> the id computed by get_next_hap_id (0: none yet)
    job,        \* job -> [cmd, name, check, src, hk, old, polls, seen, rv]: run()'s
                \*        arguments; src is the id of the hap a restart
                \*        replaces (0 for a plain run), hk the id of restart's
                \*        hap_killed, old the creator of the hap replaced
                \*        (history), polls the looks wait_created has left and
                \*        seen the rc file as wait_created found it (history),
                \*        rv the jobs that held the same id, their directory
                \*        not yet made, when this one computed its id (history)
    procs,      \* pid -> [st, code]: the OS process table
    ret,        \* job -> the caller-return flow of run(): "none", "checking"
                \*        (in wait_created), "readrc" (before hap.rc), "ok"
                \*        (sys.exit(0)), "fail" (sys.exit(1))
    out,        \* what the last control operation reported: [op, n]
    maxIssued   \* history: the highest id create_hap ever handed out

vars == <<dirs, pc, hid, job, procs, ret, out, maxIssued>>

\* A directory that does not exist.
NoDir == [cmd |-> "-", name |-> <<>>, pid |-> <<>>, rc |-> <<>>, own |-> 0, k |-> FALSE]

NoProc == [st |-> "none", code |-> 0]

\* A hap of an earlier session: it ran "ok" as pid 0 and its rc file says 0.
OldHap == [cmd |-> "ok", name |-> <<>>, pid |-> <<0>>, rc |-> <<0>>, own |-> 0, k |-> FALSE]

Exists(h) == dirs[h] # NoDir

Existing == {h \in Ids : Exists(h)}

\* ----------------------------------------------------------------- registry
Min(S) == CHOOSE m \in S : \A x \in S : m <= x

Max(S) == CHOOSE m \in S : \A x \in S : m >= x

RECURSIVE SortedSeq(_)
SortedSeq(S) == IF S = {} THEN <<>>
                ELSE LET m == Min(S) IN <<m>> \o SortedSeq(S \ {m})

\* Hapless._get_hap_dirs: the numeric directory names, sorted by value.
get_hap_dirs_of(d) == SortedSeq({h \in Ids : d[h] # NoDir})

get_hap_dirs == get_hap_dirs_of(dirs)

\* A get_next_hap_id that counts the directories instead of reading the last.
get_next_hap_id_count == Len(get_hap_dirs) + 1

\* Hapless.get_next_hap_id
get_next_hap_id ==
    LET ds == get_hap_dirs
    IN  IF ds = <<>> THEN 1 ELSE ds[Len(ds)] + 1

\* The directory name of an id, as f"{hid}" writes it.
DigitStr == <<"1", "2", "3", "4", "5", "6", "7", "8", "9">>

IdStr(h) == DigitStr[h]

NameStrs == {n[1] : n \in (Names \cup RegNames) \ {<<>>}}

\* A loop of _get_hap_names_map that keeps the first directory of a name.
RECURSIVE names_loop_first(_, _, _)
names_loop_first(d, ds, m) ==
    IF ds = <<>> THEN m
    ELSE LET h == Head(ds)
         IN  names_loop_first(d, Tail(ds),
                              IF d[h].name # <<>> /\ m[d[h].name[1]] = 0
                              THEN [m EXCEPT ![d[h].name[1]] = h] ELSE m)

\* Hapless._get_hap_names_map, its loop over the sorted directories: a later
\* directory with the same name replaces an earlier one (0: no such key).
RECURSIVE names_loop(_, _, _)
names_loop(d, ds, m) ==
    IF ds = <<>> THEN m
    ELSE LET h == Head(ds)
         IN  names_loop(d, Tail(ds),
                        IF d[h].name # <<>> THEN [m EXCEPT ![d[h].name[1]] = h] ELSE m)

\* Hapless._get_hap_names_map
get_hap_names_map_of(d) == names_loop(d, get_hap_dirs_of(d), [a \in NameStrs |-> 0])

\* A get_hap that looks the alias up among the names before the ids.
get_hap_names_first(d, hap_alias) ==
    IF hap_alias \in NameStrs /\ get_hap_names_map_of(d)[hap_alias] # 0
    THEN get_hap_names_map_of(d)[hap_alias]
    ELSE IF \E h \in Ids : d[h] # NoDir /\ IdStr(h) = hap_alias
    THEN CHOOSE h \in Ids : d[h] # NoDir /\ IdStr(h) = hap_alias
    ELSE 0

\* Hapless.get_hap: the id of the hap found, 0 for None.
get_hap_of(d, hap_alias) ==
    IF \E h \in Ids : d[h] # NoDir /\ IdStr(h) = hap_alias
    THEN CHOOSE h \in Ids : d[h] # NoDir /\ IdStr(h) = hap_alias
    ELSE IF hap_alias \in NameStrs THEN get_hap_names_map_of(d)[hap_alias]
    ELSE 0

get_hap(hap_alias) == get_hap_of(dirs, hap_alias)

\* Hap(hap_dir, cmd=cmd, name=name) on a fresh directory: an unbound record.
NewHap(j, cmd, name) ==
    [cmd |-> cmd, name |-> name, pid |-> <<>>, rc |-> <<>>, own |-> j, k |-> FALSE]

\* ---------------------------------------------------------- derived status
\* Hap.proc: the live OS process with the record's pid, if any.
HasProc(d, ps, h) ==
    /\ d[h].pid # <<>>
    /\ ps[d[h].pid[1]].st \in {"running", "stopped"}

\* Hap.status
StatusIn(d, ps, h) ==
    IF d[h].rc # <<>> THEN (IF d[h].rc[1] = 0 THEN "SUCCESS" ELSE "FAILED")
    ELSE IF d[h].pid = <<>> THEN "UNBOUND"
    ELSE IF ps[d[h].pid[1]].st = "stopped" THEN "PAUSED"
    ELSE "RUNNING"

Status(h) == StatusIn(dirs, procs, h)

\* Hap.active
ActiveIn(d, ps, h) == StatusIn(d, ps, h) \in {"RUNNING", "PAUSED"}

Active(h) == ActiveIn(dirs, procs, h)

\* utils.kill_proc_tree: the process, if alive, ends with a signal's code.
kill_proc_tree(ps, p) ==
    IF ps[p].st \in {"running", "stopped"}
    THEN [ps EXCEPT ![p] = [st |-> "exited", code |-> KilledCode]]
    ELSE ps

\* The arguments and locals of one run() or restart().
JobOf(cmd, name, check, src, old) ==
    [cmd |-> cmd, name |-> name, check |-> check, src |-> src, hk |-> 0,
     old |-> old, polls |-> IF check THEN MaxPolls ELSE 0, seen |-> <<>>,
     rv |-> {}]

\* The invocations that have computed id h and not yet called mkdir.
Rivals(h) == {i \in Jobs : pc[i] = "gotid" /\ hid[i] = h}

\* Hapless.__init__ on a directory that is empty or holds one finished hap.
Init ==
    /\ dirs \in {[h \in Ids |-> NoDir], [h \in Ids |-> IF h = 1 THEN OldHap ELSE NoDir]}
    /\ pc = [j \in Jobs |-> "idle"]
    /\ hid = [j \in Jobs |-> 0]
    /\ job = [j \in Jobs |-> JobOf("-", <<>>, FALSE, 0, -1)]
    /\ procs = [p \in Pids |-> IF p = 0 THEN [st |-> "exited", code |-> 0] ELSE NoProc]
    /\ ret = [j \in Jobs |-> "none"]
    /\ out = [op |-> "none", n |-> 0]
    /\ maxIssued = IF Exists(1) THEN 1 ELSE 0

\* ------------------------------------------------------- launch: run()
\* run() entered: create_hap calls get_next_hap_id.
Run(j, cmd, name) ==
    /\ pc[j] = "idle"
    /\ get_next_hap_id <= MaxId
    /\ pc' = [pc EXCEPT ![j] = "gotid"]
    /\ hid' = [hid EXCEPT ![j] = get_next_hap_id]
    /\ job' = [job EXCEPT ![j] = [JobOf(cmd, name, FALSE, 0, -1) EXCEPT
                                     !.rv = Rivals(get_next_hap_id)]]
    /\ UNCHANGED <<dirs, procs, ret, out, maxIssued>>

\* run(cmd, name, check=True) entered.
RunCheck(j, cmd, name) ==
    /\ pc[j] = "idle"
    /\ get_next_hap_id <= MaxId
    /\ pc' = [pc EXCEPT ![j] = "gotid"]
    /\ hid' = [hid EXCEPT ![j] = get_next_hap_id]
    /\ job' = [job EXCEPT ![j] = [JobOf(cmd, name, TRUE, 0, -1) EXCEPT
                                     !.rv = Rivals(get_next_hap_id)]]
    /\ UNCHANGED <<dirs, procs, ret, out, maxIssued>>

\* A create_hap whose mkdir accepts a directory that is there already, Hap(...)
\* then writing cmd and name into it.
MkDirExistOk(j) ==
    /\ pc[j] = "gotid"
    /\ dirs' = IF Exists(hid[j])
               THEN [dirs EXCEPT ![hid[j]].cmd = job[j].cmd, ![hid[j]].name = job[j].name]
               ELSE [dirs EXCEPT ![hid[j]] = NewHap(j, job[j].cmd, job[j].name)]
    /\ pc' = [pc EXCEPT ![j] = "forked"]
    /\ ret' = [ret EXCEPT ![j] = IF job[j].check THEN "checking" ELSE "ok"]
    /\ maxIssued' = IF hid[j] > maxIssued THEN hid[j] ELSE maxIssued
    /\ UNCHANGED <<hid, job, procs, out>>

\* create_hap: hap_dir.mkdir() (FileExistsError if the id was taken in the
\* meantime), Hap(...) writes cmd and name; then run() forks and the parent
\* returns to the caller with sys.exit(0), or enters _check_fast_failure.
MkDir(j) ==
    /\ pc[j] = "gotid"
    /\ IF Exists(hid[j])
       THEN /\ pc' = [pc EXCEPT ![j] = "err_mkdir"]
            /\ UNCHANGED <<dirs, ret, maxIssued>>
       ELSE /\ dirs' = [dirs EXCEPT ![hid[j]] = NewHap(j, job[j].cmd, job[j].name)]
            /\ pc' = [pc EXCEPT ![j] = "forked"]
            /\ ret' = [ret EXCEPT ![j] = IF job[j].check THEN "checking" ELSE "ok"]
            /\ maxIssued' = IF hid[j] > maxIssued THEN hid[j] ELSE maxIssued
    /\ UNCHANGED <<hid, job, procs, out>>

\* run_hap: open the two log files in the hap directory, Popen the command.
Spawn(j) ==
    /\ pc[j] = "forked"
    /\ IF Exists(hid[j])
       THEN /\ procs' = [procs EXCEPT ![j] = [st |-> "running", code |-> 0]]
            /\ pc' = [pc EXCEPT ![j] = "spawned"]
       ELSE /\ pc' = [pc EXCEPT ![j] = "err_spawn"]
            /\ UNCHANGED procs
    /\ UNCHANGED <<dirs, hid, job, ret, out, maxIssued>>

\* Hap.bind: write the pid file under the hap's path.
bind(d, h, p) == [d EXCEPT ![h].pid = <<p>>]

\* A run_hap that goes on to wait() without the call of hap.bind.
BindSkipped(j) ==
    /\ pc[j] = "spawned"
    /\ pc' = [pc EXCEPT ![j] = IF Exists(hid[j]) THEN "bound" ELSE "err_bind"]
    /\ UNCHANGED <<dirs, hid, job, procs, ret, out, maxIssued>>

\* run_hap: hap.bind(proc.pid)
Bind(j) ==
    /\ pc[j] = "spawned"
    /\ IF Exists(hid[j])
       THEN /\ dirs' = bind(dirs, hid[j], j)
            /\ pc' = [pc EXCEPT ![j] = "bound"]
       ELSE /\ pc' = [pc EXCEPT ![j] = "err_bind"]
            /\ UNCHANGED dirs
    /\ UNCHANGED <<hid, job, procs, ret, out, maxIssued>>

\* The spawned command ends on its own ("nap" never does).
ProcExit(p) ==
    /\ procs[p].st = "running"
    /\ job[p].cmd # "nap"
    /\ procs' = [procs EXCEPT ![p] = [st |-> "exited", code |-> ExitOf(job[p].cmd)]]
    /\ UNCHANGED <<dirs, pc, hid, job, ret, out, maxIssued>>

\* A run_hap that records a negative return code (death by signal) as 0.
WriteRcClamped(j) ==
    /\ pc[j] = "bound"
    /\ procs[j].st = "exited"
    /\ IF Exists(hid[j])
       THEN /\ dirs' = [dirs EXCEPT ![hid[j]].rc =
                           <<IF procs[j].code < 0 THEN 0 ELSE procs[j].code>>]
            /\ pc' = [pc EXCEPT ![j] = "done"]
       ELSE /\ pc' = [pc EXCEPT ![j] = "err_rc"]
            /\ UNCHANGED dirs
    /\ UNCHANGED <<hid, job, procs, ret, out, maxIssued>>

\* run_hap: proc.wait() has returned; open(hap._rc_file, "w") and write it.
WriteRc(j) ==
    /\ pc[j] = "bound"
    /\ procs[j].st = "exited"
    /\ IF Exists(hid[j])
       THEN /\ dirs' = [dirs EXCEPT ![hid[j]].rc = <<procs[j].code>>]
            /\ pc' = [pc EXCEPT ![j] = "done"]
       ELSE /\ pc' = [pc EXCEPT ![j] = "err_rc"]
            /\ UNCHANGED dirs
    /\ UNCHANGED <<hid, job, procs, ret, out, maxIssued>>

\* --------------------------------------------------------- control: kill
\* A kill loop that counts every hap it is given, active or not.
RECURSIVE kill_loop_all(_, _, _, _)
kill_loop_all(haps, ps, n, ks) ==
    IF haps = <<>> THEN [ps |-> ps, n |-> n, ks |-> ks]
    ELSE LET h == Head(haps)
         IN  IF ActiveIn(dirs, ps, h)
             THEN kill_loop_all(Tail(haps), kill_proc_tree(ps, dirs[h].pid[1]),
                                n + 1, ks \cup {h})
             ELSE kill_loop_all(Tail(haps), ps, n + 1, ks)

\* Hapless.kill, its loop: ps is the process table so far, n killed_counter,
\* ks the haps acted on.
RECURSIVE kill_loop(_, _, _, _)
kill_loop(haps, ps, n, ks) ==
    IF haps = <<>> THEN [ps |-> ps, n |-> n, ks |-> ks]
    ELSE LET h == Head(haps)
         IN  IF ActiveIn(dirs, ps, h)
             THEN kill_loop(Tail(haps), kill_proc_tree(ps, dirs[h].pid[1]),
                            n + 1, ks \cup {h})
             ELSE kill_loop(Tail(haps), ps, n, ks)

\* The record keeps a note that kill acted on it (history only).
MarkKilled(d, ks) == [h \in Ids |-> IF h \in ks THEN [d[h] EXCEPT !.k = TRUE] ELSE d[h]]

\* Hapless.kill(haps, verbose=True) on the haps with ids S
Kill(S) ==
    /\ UNCHANGED <<pc, hid, job, ret, maxIssued>>
    /\ LET r == kill_loop(SortedSeq(S), procs, 0, {})
       IN  /\ out' = [op |-> "kill", n |-> r.n]
           /\ procs' = r.ps
           /\ dirs' = MarkKilled(dirs, r.ks)

\* Hapless.signal: KILL ends the process, STOP suspends it, CONT resumes it.
Signal(h, sig) ==
    /\ Exists(h)
    /\ IF Active(h)
       THEN /\ LET p == dirs[h].pid[1]
               IN  procs' =
                     IF procs[p].st \notin {"running", "stopped"} THEN procs
                     ELSE IF sig = "KILL"
                          THEN [procs EXCEPT ![p] = [st |-> "exited", code |-> KilledCode]]
                     ELSE IF sig = "STOP" THEN [procs EXCEPT ![p].st = "stopped"]
                     ELSE [procs EXCEPT ![p].st = "running"]
            /\ out' = [op |-> "signal", n |-> 0]
       ELSE /\ out' = [op |-> "signal", n |-> 1]
            /\ UNCHANGED procs
    /\ UNCHANGED <<dirs, pc, hid, job, ret, maxIssued>>

\* Hapless.pause_hap: out.n is the exit status of the invocation.
Pause(h) ==
    /\ Exists(h)
    /\ IF HasProc(dirs, procs, h)
       THEN /\ procs' = [procs EXCEPT ![dirs[h].pid[1]].st = "stopped"]
            /\ out' = [op |-> "pause", n |-> 0]
       ELSE /\ out' = [op |-> "pause", n |-> 1]
            /\ UNCHANGED procs
    /\ UNCHANGED <<dirs, pc, hid, job, ret, maxIssued>>

\* A resume_hap that resumes whatever live process the hap has.
ResumeAlways(h) ==
    /\ Exists(h)
    /\ IF HasProc(dirs, procs, h)
       THEN /\ procs' = [procs EXCEPT ![dirs[h].pid[1]].st = "running"]
            /\ out' = [op |-> "resume", n |-> 0]
       ELSE /\ out' = [op |-> "resume", n |-> 1]
            /\ UNCHANGED procs
    /\ UNCHANGED <<dirs, pc, hid, job, ret, maxIssued>>

\* Hapless.resume_hap
Resume(h) ==
    /\ Exists(h)
    /\ IF HasProc(dirs, procs, h) /\ procs[dirs[h].pid[1]].st = "stopped"
       THEN /\ procs' = [procs EXCEPT ![dirs[h].pid[1]].st = "running"]
            /\ out' = [op |-> "resume", n |-> 0]
       ELSE /\ out' = [op |-> "resume", n |-> 1]
            /\ UNCHANGED procs
    /\ UNCHANGED <<dirs, pc, hid, job, ret, maxIssued>>

\* -------------------------------------------------------- control: clean
\* A filter of clean that takes the FAILED haps whatever clean_all says.
to_clean_failed_too(d, ps, h, clean_all) ==
    StatusIn(d, ps, h) \in {"SUCCESS", "FAILED"}

\* Hapless.clean, its filter
to_clean_in(d, ps, h, clean_all) ==
    \/ StatusIn(d, ps, h) = "SUCCESS"
    \/ (StatusIn(d, ps, h) = "FAILED" /\ clean_all)

to_clean(h, clean_all) == to_clean_in(dirs, procs, h, clean_all)

\* A clean that removes the first hap its filter selects and no other.
clean_first(d, ps, clean_all) ==
    LET haps == {h \in Ids : d[h] # NoDir /\ to_clean_in(d, ps, h, clean_all)}
        fst == IF haps = {} THEN {} ELSE {Min(haps)}
    IN  [dirs |-> [h \in Ids |-> IF h \in fst THEN NoDir ELSE d[h]],
         n |-> Cardinality(fst)]

\* Hapless.clean, its effect on a directory d under the process table ps:
\* the haps the filter selects are removed, n is len(haps).
clean_of(d, ps, clean_all) ==
    LET haps == {h \in Ids : d[h] # NoDir /\ to_clean_in(d, ps, h, clean_all)}
    IN  [dirs |-> [h \in Ids |-> IF h \in haps THEN NoDir ELSE d[h]],
         n |-> Cardinality(haps)]

\* Hapless.clean
Clean(clean_all) ==
    /\ UNCHANGED <<pc, hid, job, procs, ret, maxIssued>>
    /\ LET r == clean_of(dirs, procs, clean_all)
       IN  /\ dirs' = r.dirs
           /\ out' = [op |-> "clean", n |-> r.n]

\* Hapless.clean_one, its effect on the directory: rmtree of the hap with
\* that hid, if get_haps still lists it.
clean_one(d, h) == [d EXCEPT ![h] = NoDir]

\* Hapless.clean_one(hap, verbose=True)
CleanOne(h) ==
    /\ Exists(h)
    /\ dirs' = clean_one(dirs, h)
    /\ out' = [op |-> "clean_one", n |-> 1]
    /\ UNCHANGED <<pc, hid, job, procs, ret, maxIssued>>

\* ------------------------------------------------------ control: restart
\* Hapless.restart, up to the first get_hap: read hid, name and cmd of the
\* hap, kill it if it is active.
Restart(j, h) ==
    /\ pc[j] = "idle"
    /\ Exists(h)
    /\ job' = [job EXCEPT ![j] = JobOf(dirs[h].cmd, dirs[h].name, FALSE, h, dirs[h].own)]
    /\ LET r == IF Active(h) THEN kill_loop(<<h>>, procs, 0, {})
                ELSE [ps |-> procs, n |-> 0, ks |-> {}]
       IN  /\ procs' = r.ps
           /\ dirs' = MarkKilled(dirs, r.ks)
    /\ pc' = [pc EXCEPT ![j] = "rwait"]
    /\ UNCHANGED <<hid, ret, out, maxIssued>>

\* Hapless.restart, the busy-wait: get_hap(hid) until it is not active.
\* get_hap returns None once the directory is gone, and .active then raises.
RestartPoll(j) ==
    /\ pc[j] = "rwait"
    /\ LET hap_killed == get_hap(IdStr(job[j].src))
       IN  IF hap_killed = 0
           THEN /\ pc' = [pc EXCEPT ![j] = "err_poll"]
                /\ UNCHANGED job
           ELSE /\ ~Active(hap_killed)
                /\ pc' = [pc EXCEPT ![j] = "rclean"]
                /\ job' = [job EXCEPT ![j].hk = hap_killed]
    /\ UNCHANGED <<dirs, hid, procs, ret, out, maxIssued>>

\* A restart that goes on to run() without the call of clean_one.
RestartCleanSkipped(j) ==
    /\ pc[j] = "rclean"
    /\ pc' = [pc EXCEPT ![j] = "rrun"]
    /\ UNCHANGED <<dirs, hid, job, procs, ret, out, maxIssued>>

\* Hapless.restart: clean_one(hap_killed, verbose=False)
RestartClean(j) ==
    /\ pc[j] = "rclean"
    /\ dirs' = clean_one(dirs, job[j].hk)
    /\ pc' = [pc EXCEPT ![j] = "rrun"]
    /\ UNCHANGED <<hid, job, procs, ret, out, maxIssued>>

\* Hapless.restart: run(cmd=cmd, name=name) enters create_hap.
RestartRun(j) ==
    /\ pc[j] = "rrun"
    /\ get_next_hap_id <= MaxId
    /\ pc' = [pc EXCEPT ![j] = "gotid"]
    /\ hid' = [hid EXCEPT ![j] = get_next_hap_id]
    /\ job' = [job EXCEPT ![j].rv = Rivals(get_next_hap_id)]
    /\ UNCHANGED <<dirs, procs, ret, out, maxIssued>>

Next ==
    \/ \E j \in Jobs, c \in Cmds, n \in Names : Run(j, c, n)
    \/ \E j \in Jobs : MkDir(j)
    \/ \E j \in Jobs : Spawn(j)
    \/ \E j \in Jobs : Bind(j)
    \/ \E p \in Jobs : ProcExit(p)
    \/ \E j \in Jobs : WriteRc(j)
    \/ \E S \in SUBSET Existing : Kill(S)
    \/ \E h \in Ids, sig \in Sigs : Signal(h, sig)
    \/ \E h \in Ids : Pause(h)
    \/ \E h \in Ids : Resume(h)
    \/ \E b \in BOOLEAN : Clean(b)
    \/ \E h \in Ids : CleanOne(h)
    \/ \E j \in Jobs, h \in Ids : Restart(j, h)
    \/ \E j \in Jobs : RestartPoll(j)
    \/ \E j \in Jobs : RestartClean(j)
    \/ \E j \in Jobs : RestartRun(j)

Spec == Init /\ [][Next]_vars

\* ------------------------------------------- launch with fast-failure check
\* utils.wait_created, one look: the path of the hap's rc file exists.
wait_created(d, h) == d[h] # NoDir /\ d[h].rc # <<>>

\* Hap.rc: the content of the rc file, None (<<>>) if there is no such file.
rc_of(d, h) == d[h].rc

\* _check_fast_failure: wait_created(hap._rc_file) looks for the rc file; it
\* returns True once the file is there and False after MaxPolls looks, and
\* run() then goes on to sys.exit(0).
CheckWait(j) ==
    /\ ret[j] = "checking"
    /\ IF wait_created(dirs, hid[j])
       THEN /\ ret' = [ret EXCEPT ![j] = "readrc"]
            /\ job' = [job EXCEPT ![j].seen = dirs[hid[j]].rc]
       ELSE IF job[j].polls > 1
       THEN /\ job' = [job EXCEPT ![j].polls = job[j].polls - 1]
            /\ UNCHANGED ret
       ELSE /\ ret' = [ret EXCEPT ![j] = "ok"]
            /\ job' = [job EXCEPT ![j].polls = 0]
    /\ UNCHANGED <<dirs, pc, hid, procs, out, maxIssued>>

\* _check_fast_failure: `hap.rc != 0` after wait_created returned True; the
\* invocation ends with sys.exit(1) or, back in run(), with sys.exit(0).
CheckRc(j) ==
    /\ ret[j] = "readrc"
    /\ ret' = [ret EXCEPT ![j] = IF rc_of(dirs, hid[j]) # <<0>> THEN "fail" ELSE "ok"]
    /\ UNCHANGED <<dirs, pc, hid, job, procs, out, maxIssued>>

\* Launches with check=True, and clean called from other invocations.
NextCheck ==
    \/ \E j \in Jobs, c \in Cmds, n \in Names : RunCheck(j, c, n)
    \/ \E j \in Jobs : MkDir(j)
    \/ \E j \in Jobs : Spawn(j)
    \/ \E j \in Jobs : Bind(j)
    \/ \E p \in Jobs : ProcExit(p)
    \/ \E j \in Jobs : WriteRc(j)
    \/ \E j \in Jobs : CheckWait(j)
    \/ \E j \in Jobs : CheckRc(j)
    \/ \E b \in BOOLEAN : Clean(b)

SpecCheck == Init /\ [][NextCheck]_vars

\* ------------------------------------------------- the registry on its own
\* Hapless.create_hap as one call of one invocation: get_next_hap_id, mkdir
\* (which raises if the directory exists), Hap(...).  Nothing is launched.
RegCreate(cmd, name) ==
    /\ LET h == get_next_hap_id
       IN  /\ h <= MaxId
           /\ ~Exists(h)
           /\ dirs' = [dirs EXCEPT ![h] = NewHap(0, cmd, name)]
           /\ maxIssued' = IF h > maxIssued THEN h ELSE maxIssued
    /\ UNCHANGED <<pc, hid, job, procs, ret, out>>

\* Creates and deletes of one invocation after the other, no launch.
NextReg ==
    \/ \E c \in Cmds, n \in RegNames : RegCreate(c, n)
    \/ \E h \in Ids : CleanOne(h)

SpecReg == Init /\ [][NextReg]_vars

\* The ids created by the step at hand.
Created(h) == ~Exists(h) /\ dirs'[h] # NoDir

\* ---------------------------------------------------------------- claims
\* C2 as stated: every id handed out by create is strictly greater than
\* every id handed out before it, whichever records were deleted in between.
C2_StrictlyIncreasing == [][\A h \in Ids : Created(h) => h > maxIssued]_vars

\* C2, amended: every id handed out by create is strictly greater than the
\* id of every record existing at that moment, and strictly greater than
\* every id handed out before whenever the record with the highest id handed
\* out so far still exists.
C2_AboveExisting ==
    [][\A h \in Ids : Created(h) =>
          /\ \A g \in Existing : h > g
          /\ (maxIssued \in Existing => h > maxIssued)]_vars

\* C2 witness: ids 1, 2, 3 were handed out, 1 was deleted, 2 and 3 remain.
C2_Witness == maxIssued = 3 /\ Existing = {2, 3}

\* C4: get_next_hap_id is 1 when no hap directory exists and one more than
\* the highest existing id otherwise.
C4_NextId ==
    get_next_hap_id = IF Existing = {} THEN 1 ELSE Max(Existing) + 1

\* C4 witness: after creating {1,2,3} and deleting 2 the next id is 4.
C4_Witness == maxIssued = 3 /\ Existing = {1, 3} /\ get_next_hap_id = 4

\* C1 as stated: in every reachable state a record whose rc is present has
\* its pid present.
C1_RcImpliesPid ==
    \A h \in Ids : (Exists(h) /\ dirs[h].rc # <<>>) => dirs[h].pid # <<>>

\* The launch of restart(r) has computed its id in this step.
RestartGetsId(j) == pc[j] = "rrun" /\ pc'[j] = "gotid"

\* C3 as stated: the job restart launches has an id different from the id
\* of the record it replaces.
C3_NewIdDiffers ==
    \A j \in Jobs : (job[j].src # 0 /\ ret[j] = "ok") => hid[j] # job[j].src

\* C3, amended: the id of the job restart launches is one more than the
\* highest id present once r is deleted (1 if none is); it differs from r's
\* old id whenever a record with an id at or above r's is present then.
C3_NextAboveRemaining ==
    [][\A j \in Jobs : RestartGetsId(j) =>
          /\ hid'[j] = IF Existing = {} THEN 1 ELSE Max(Existing) + 1
          /\ ((\E g \in Existing : g >= job[j].src) => hid'[j] # job[j].src)]_vars

\* C3 witness: a restart launched its job, under a new id, while a record
\* with a higher id than the replaced one was there.
C3_Witness ==
    \E j \in Jobs : /\ job[j].src # 0
                    /\ ret[j] = "ok"
                    /\ hid[j] > job[j].src
                    /\ \E g \in Existing : g > job[j].src /\ g < hid[j]

\* C5 as stated: no step of clean_one or clean (the only code that removes
\* a hap directory) removes a record whose status is RUNNING or PAUSED.
C5_ActiveNeverRemoved ==
    [][\A h \in Ids : (Exists(h) /\ Active(h)) => dirs'[h] # NoDir]_vars

\* The pids bound to the active records among S.
ActivePids(S) == {dirs[h].pid[1] : h \in {g \in S : Active(g)}}

\* C6: kill(haps) ends the process of exactly the active haps it is given,
\* leaves the inactive ones and every other process as they are, and
\* reports the number of haps that were active.
C6_KillActiveOnly ==
    [][\A S \in SUBSET Existing : (out'.op = "kill" /\ pc' = pc /\ Kill(S)) =>
          /\ out'.n = Cardinality({h \in S : Active(h)})
          /\ \A p \in ActivePids(S) : procs'[p].st \notin {"running", "stopped"}
          /\ \A p \in Pids \ ActivePids(S) : procs'[p] = procs[p]
          /\ \A h \in S : ~Active(h) => dirs'[h] = dirs[h]]_vars

\* C6 witness: a kill reported 1 with a hap it ended (rc not yet written)
\* next to a hap that had already finished.
C6_Witness ==
    /\ out = [op |-> "kill", n |-> 1]
    /\ \E h, g \in Existing :
          /\ dirs[h].k /\ dirs[h].rc = <<>>
          /\ procs[dirs[h].pid[1]] = [st |-> "exited", code |-> KilledCode]
          /\ ~dirs[g].k /\ Status(g) \in {"SUCCESS", "FAILED"}

\* C7 as stated: once the rc of a record is written it is never written
\* again with another value, so a SUCCESS or FAILED record keeps its status
\* for as long as it exists.
C7_RcWrittenOnce ==
    [][\A h \in Ids : (Exists(h) /\ dirs[h].rc # <<>> /\ dirs'[h] # NoDir)
                         => dirs'[h].rc = dirs[h].rc]_vars

\* C8 as stated, at the step that ends the detached flow of a bound job
\* whose process exited with code c: the job's own record holds rc = c.
C8_ExitCodeRecorded ==
    [][\A j \in Jobs : (pc[j] = "bound" /\ pc'[j] # "bound") =>
          /\ dirs'[hid[j]] # NoDir
          /\ dirs'[hid[j]].own = j
          /\ dirs'[hid[j]].rc = <<procs[j].code>>]_vars

\* run() returns to the caller in this step.
LaunchReturns(j) == ret[j] = "none" /\ ret'[j] = "ok"

Aliases == {IdStr(h) : h \in Ids} \cup NameStrs \cup {"none"}

IdMatches(a) == {h \in Existing : IdStr(h) = a}

NameMatches(a) == {h \in Existing : dirs[h].name = <<a>>}

\* C11: get_hap(alias) returns the hap whose id is the alias whenever that
\* hap exists, even if another hap carries the alias as its name; otherwise
\* a hap whose name is the alias; and None, without an error, if there is
\* neither.
C11_IdBeforeName ==
    \A a \in Aliases :
        /\ (IdMatches(a) # {} => get_hap(a) \in IdMatches(a))
        /\ ((IdMatches(a) = {} /\ NameMatches(a) # {}) => get_hap(a) \in NameMatches(a))
        /\ ((IdMatches(a) = {} /\ NameMatches(a) = {}) => get_hap(a) = 0)

\* C11 witness: hap 2 exists, hap 3 is named "2", and "2" resolves to hap 2;
\* "nap" resolves to hap 1 by its name.
C11_Witness ==
    /\ Exists(2) /\ Exists(3) /\ dirs[3].name = <<"2">>
    /\ get_hap("2") = 2
    /\ Exists(1) /\ dirs[1].name = <<"nap">> /\ get_hap("nap") = 1
    /\ get_hap("none") = 0

\* The OS reports the process of the hap's pid file as stopped.
Stopped(h) == dirs[h].pid # <<>> /\ procs[dirs[h].pid[1]].st = "stopped"

\* C12: resume_hap resumes the process only when the OS reports it as
\* stopped, and a PAUSED hap is RUNNING again afterwards; on a hap whose
\* process is running, was never bound or has ended it exits with status 1
\* and changes neither the process table nor any record.
C12_ResumeOnlyStopped ==
    [][\A h \in Ids : (out'.op = "resume" /\ pc' = pc /\ Resume(h)) =>
          IF Stopped(h)
          THEN /\ out'.n = 0
               /\ procs'[dirs[h].pid[1]].st = "running"
               /\ dirs' = dirs
               /\ (Status(h) = "PAUSED" => StatusIn(dirs', procs', h) = "RUNNING")
          ELSE /\ out'.n = 1
               /\ procs' = procs
               /\ dirs' = dirs]_vars

\* C12 witness: the last operation was a resume that succeeded, and the one
\* hap there is, paused before, is RUNNING.
C12_Witness ==
    /\ out = [op |-> "resume", n |-> 0]
    /\ \E h \in Ids : Existing = {h} /\ Status(h) = "RUNNING"

\* C13 as stated: pause_hap accepts (suspends, exit status 0) only a hap
\* that is active and not already paused, that is a RUNNING one; on an
\* inactive or an already PAUSED hap it does not report a pause.
C13_PauseOnlyRunning ==
    [][\A h \in Ids : (out'.op = "pause" /\ pc' = pc /\ Pause(h)) =>
          (out'.n = 0 => Status(h) = "RUNNING")]_vars

\* The step at hand is a call of clean(clean_all).
CleanStep(clean_all) == out'.op = "clean" /\ pc' = pc /\ procs' = procs /\ Clean(clean_all)

C15_SecondCleanNothing ==
    [][CleanStep(FALSE) =>
          LET again == clean_of(dirs', procs', FALSE)
          IN  again.n = 0 /\ again.dirs = dirs']_vars

\* C15 witness: a clean has removed two haps, a hap is left, and a clean
\* called now would remove nothing.
C15_Witness ==
    /\ out = [op |-> "clean", n |-> 2]
    /\ Existing # {}
    /\ clean_of(dirs, procs, FALSE).n = 0

\* C16 as stated: in every reachable state no two existing haps carry the
\* same name.
C16_NamesUnique ==
    \A h, g \in Existing :
        (h # g /\ dirs[h].name # <<>>) => dirs[h].name # dirs[g].name

\* C16, amended: several existing haps may carry the same name (create_hap
\* does not look at the names there are); a name that is not the id of an
\* existing hap resolves to exactly one of its holders, the one with the
\* highest id.
C16_NameResolvesToLast ==
    \A a \in NameStrs :
        (NameMatches(a) # {} /\ IdMatches(a) = {}) => get_hap(a) = Max(NameMatches(a))

\* C16 witness: two existing haps are both named "nap", and "nap" resolves
\* to the later one.
C16_Witness ==
    \E h, g \in Existing :
        /\ h < g
        /\ dirs[h].name = <<"nap">> /\ dirs[g].name = <<"nap">>
        /\ get_hap("nap") = g

\* The fast-failure check of job j ends in this step.
CheckReturns(j) == ret[j] \in {"checking", "readrc"} /\ ret'[j] \in {"ok", "fail"}

\* C17 as stated: a launch with the fast-failure check reports failure
\* exactly when the rc file appeared within the bounded wait and held a
\* non-zero code; it returns normally when the file held zero or did not
\* appear in time.
C17_FailIffNonZero ==
    [][\A j \in Jobs : CheckReturns(j) =>
          (ret'[j] = "fail" <=> (job'[j].seen # <<>> /\ job'[j].seen[1] # 0))]_vars

\* Where a restart is once its clean_one has been called.
PastClean == {"rrun", "gotid", "forked", "spawned", "bound", "done",
              "err_mkdir", "err_spawn", "err_bind", "err_rc"}

\* The hap that restart j replaces, as its creator made it, is in d.
OldThere(d, j) == d[job[j].src] # NoDir /\ d[job[j].src].own = job[j].old

\* C18: restart goes through its steps in one order.  It kills the hap if
\* it is active; it calls clean_one only after a get_hap has shown the hap
\* inactive; clean_one leaves no directory of that id; and from then on,
\* through the creation of the replacement and after it, the hap replaced
\* does not exist, so that the old and the new hap are never there together.
C18_RestartOrder ==
    [][\A j \in Jobs :
          /\ (pc[j] = "idle" /\ pc'[j] = "rwait" /\ Active(job'[j].src)) =>
                 procs'[dirs[job'[j].src].pid[1]].st = "exited"
          /\ (pc[j] = "rwait" /\ pc'[j] = "rclean") => ~Active(job'[j].hk)
          /\ (pc[j] = "rclean" /\ pc'[j] # "rclean") =>
                 (pc'[j] = "rrun" /\ dirs'[job[j].hk] = NoDir)
          /\ (job[j].src # 0 /\ pc'[j] \in PastClean) => ~OldThere(dirs', j)
          /\ (job[j].src # 0 /\ hid[j] # 0 /\ Created(hid[j]) /\ dirs'[hid[j]].own = j) =>
                 (pc[j] = "gotid" /\ ~OldThere(dirs, j) /\ dirs'[hid[j]].cmd = job[j].cmd
                  /\ dirs'[hid[j]].name = job[j].name)]_vars

\* C18 witness: a restart of a hap that was running has killed its process
\* and created the replacement, which exists, under the id of the old hap.
C18_Witness ==
    \E j \in Jobs :
        /\ job[j].src # 0 /\ job[j].old >= 1
        /\ procs[job[j].old].code = KilledCode
        /\ hid[j] = job[j].src
        /\ Exists(hid[j]) /\ dirs[hid[j]].own = j

\* create_hap of invocation j has returned a hap.
Obtained(j) == pc[j] \in {"forked", "spawned", "bound", "done",
                          "err_spawn", "err_bind", "err_rc"}

\* C19 as stated: of two invocations that computed the same id before
\* either made its directory, at most one obtains a hap of that id, under
\* every interleaving.
C19_OneHandlePerId ==
    \A j \in Jobs : \A i \in job[j].rv :
        ~(Obtained(i) /\ Obtained(j) /\ hid[i] = hid[j])

\* C19, amended: a mkdir that finds the directory of its id in place fails
\* and changes no record, whoever made that directory; a mkdir that does not
\* find it creates one unbound hap and changes no other record.  So of two
\* invocations with the same id the second fails as long as the directory
\* of the first is there.
C19_MkdirFailsIfPresent ==
    [][\A j \in Jobs : (pc[j] = "gotid" /\ pc'[j] # "gotid") =>
          IF Exists(hid[j])
          THEN pc'[j] = "err_mkdir" /\ dirs' = dirs /\ ret'[j] = ret[j]
          ELSE /\ pc'[j] = "forked"
               /\ dirs'[hid[j]] = NewHap(j, job[j].cmd, job[j].name)
               /\ \A h \in Ids \ {hid[j]} : dirs'[h] = dirs[h]]_vars

\* C19 witness: two invocations computed the same id; one has its hap, in
\* place, and the mkdir of the other has failed.
C19_Witness ==
    \E j \in Jobs : \E i \in job[j].rv :
        /\ hid[i] = hid[j]
        /\ Exists(hid[i]) /\ dirs[hid[i]].own = i
        /\ pc[j] = "err_mkdir"

\* The detached flow of job j writes its pid file or its rc file in this step.
FlowWrites(j) ==
    \/ (pc[j] = "spawned" /\ pc'[j] = "bound")
    \/ (pc[j] = "bound" /\ pc'[j] = "done")

\* C20 as stated: the pid and the return code a detached flow writes land
\* on the hap created for that flow's own launch, never on another hap,
\* however restart and clean interleave with the flow.
C20_WritesOnOwnRecord ==
    [][\A j \in Jobs : FlowWrites(j) => dirs[hid[j]].own = j]_vars

====
